---- MODULE Spec2Model ----
(***************************************************************************)
(* Lucky Puppy Bot (lucky-puppy-bot-main/index.js): the per-user quote     *)
(* rotation, the article feed, the user registries, the message handler    *)
(* and the scheduled fan-out, as a state machine over the files the bot    *)
(* keeps and the memory of one Node.js process.                            *)
(***************************************************************************)
EXTENDS Integers, Sequences, FiniteSets, TLC

(* ------------------------------ bounds ------------------------------- *)
MaxMsgs == 2         \* inbound messages over a run of the model
MaxFanOuts == 3      \* fan-outs (startup and cron) over a run of the model
MaxArticleTicks == 4 \* article ticks over a run of the model
MaxQuoteTicks == 2   \* channel quote ticks of one process

(* ----------------------------- universe ------------------------------ *)
Users == {1, 2}                       \* msg.from.id values
BOM == "BOM"                          \* the character U+FEFF
NL == "NL"                            \* the character "\n"
SP == "SP"                            \* a blank
Undefined == 0 - 1                    \* the value `undefined` where an index is expected
NoQuote == <<"undefined">>            \* `undefined` where a quote is expected

Range(s) == {s[i] : i \in DOMAIN s}
NoDup(s) == \A i, j \in DOMAIN s : s[i] = s[j] => i = j
Last(s) == s[Len(s)]

(* ------------------------ String.prototype --------------------------- *)
\* text.split("\n"): the pieces between the separators, empty ones included
RECURSIVE SplitFrom(_, _, _)
SplitFrom(text, i, cur) ==
  IF i > Len(text) THEN <<cur>>
  ELSE IF text[i] = NL THEN <<cur>> \o SplitFrom(text, i + 1, <<>>)
  ELSE SplitFrom(text, i + 1, Append(cur, text[i]))
Split(text) == SplitFrom(text, 1, <<>>)

\* trim() removes white space at both ends; U+FEFF is white space to trim()
IsSpace(c) == c \in {SP, BOM}
RECURSIVE TrimLeft(_)
TrimLeft(l) == IF l # <<>> /\ IsSpace(Head(l)) THEN TrimLeft(Tail(l)) ELSE l
RECURSIVE TrimRight(_)
TrimRight(l) ==
  IF l # <<>> /\ IsSpace(Last(l)) THEN TrimRight(SubSeq(l, 1, Len(l) - 1)) ELSE l
Trim(l) == TrimRight(TrimLeft(l))
\* l.replace(/^\\uFEFF/, "")
StripBOM(l) == IF l # <<>> /\ Head(l) = BOM THEN Tail(l) ELSE l

(* --------------------------- Load Quotes ----------------------------- *)
CleanLine(l) == Trim(StripBOM(l))
KeepLine(l) == l # <<>> /\ Head(l) # "#"
sanitizeQuotes(lines) ==
  SelectSeq([i \in DOMAIN lines |-> CleanLine(lines[i])], KeepLine)

\* quotes.txt: absent, or a text
NoFile == [exists |-> FALSE, text |-> <<>>]
TextFile(t) == [exists |-> TRUE, text |-> t]
loadQuotes(file) == IF file.exists THEN sanitizeQuotes(Split(file.text)) ELSE <<>>

(* ---------------------- Shuffle Queues per User ---------------------- *)
\* [...Array(n).keys()]
\* the keys counted from one
KeysFromOne(n) == [i \in 1..n |-> i]
Keys(n) == [i \in 1..n |-> i - 1]
\* the values Math.floor(Math.random() * (i + 1)) can take, for every i of the loop;
\* positions are 1-based here, so position p is the code's i = p - 1
Draws(n) == {js \in [2..n -> 0..(n - 1)] : \A p \in 2..n : js[p] <= p - 1}
\* a swap that forgets to write arr[j]
SwapLossy(arr, a, b) == [arr EXCEPT ![a] = arr[b]]
Swap(arr, a, b) == [arr EXCEPT ![a] = arr[b], ![b] = arr[a]]
RECURSIVE ShuffleFrom(_, _, _)
ShuffleFrom(arr, p, js) ==
  IF p < 2 THEN arr ELSE ShuffleFrom(Swap(arr, p, js[p] + 1), p - 1, js)
fisherYatesShuffle(arr, js) == ShuffleFrom(arr, Len(arr), js)
buildNewQueue(q, js) == fisherYatesShuffle(Keys(Len(q)), js)

(* --------------------------- JSON documents -------------------------- *)
\* A document of ./data: not there, not parseable, zero bytes long, or the JSON text
\* of a value. JSON.stringify writes the "json" kind; JSON.parse throws on the others.
Doc(kind, val) == [kind |-> kind, val |-> val]
Absent == Doc("absent", <<>>)
Corrupt == Doc("corrupt", <<>>)
Empty == Doc("empty", <<>>)
JSONstringify(val) == Doc("json", val)
Readable(doc) == doc.kind # "absent"
Parses(doc) == doc.kind = "json"

\* new Set(array): the elements in order of first occurrence
RECURSIVE NewSet(_)
NewSet(arr) ==
  IF arr = <<>> THEN <<>>
  ELSE LET init == NewSet(SubSeq(arr, 1, Len(arr) - 1))
       IN IF Last(arr) \in Range(init) THEN init ELSE Append(init, Last(arr))
\* set.add(x)
SetAdd(set, x) == IF x \in Range(set) THEN set ELSE Append(set, x)

\* An entry of user_queues.json: a number (the older format) or {queue, version}
NumberEntry(k) == [isNumber |-> TRUE, queue |-> <<>>, version |-> k]
ObjectEntry(st) == [isNumber |-> FALSE, queue |-> st.queue, version |-> st.version]
RotationState(queue, version) == [queue |-> queue, version |-> version]

loadUserQueues(doc, q) ==
  IF Readable(doc) /\ Parses(doc)
  THEN [uid \in DOMAIN doc.val |->
          IF doc.val[uid].isNumber THEN RotationState(<<>>, Len(q))
          ELSE RotationState(doc.val[uid].queue, doc.val[uid].version)]
  ELSE <<>>
saveUserQueues(state) == JSONstringify([uid \in DOMAIN state |-> ObjectEntry(state[uid])])

\* the head is read but the shortened queue is not stored: the update is lost
getNextQuotePeek(state, q, userId, js) ==
  LET user == IF userId \in DOMAIN state THEN state[userId]
              ELSE RotationState(<<>>, Len(q))
      rebuilt == user.version # Len(q) \/ Len(user.queue) = 0
      fresh == IF rebuilt THEN RotationState(buildNewQueue(q, js), Len(q)) ELSE user
      nextIndex == IF fresh.queue = <<>> THEN Undefined ELSE Head(fresh.queue)
  IN [state |-> [uid \in DOMAIN state \cup {userId} |->
                   IF uid = userId THEN fresh ELSE state[uid]],
      index |-> nextIndex,
      quote |-> IF nextIndex \in 0..(Len(q) - 1) THEN q[nextIndex + 1] ELSE NoQuote,
      rebuilt |-> rebuilt]
\* one rotation for everybody: the state after the call is stored under every user
getNextQuoteShared(state, q, userId, js) ==
  LET user == IF userId \in DOMAIN state THEN state[userId]
              ELSE RotationState(<<>>, Len(q))
      rebuilt == user.version # Len(q) \/ Len(user.queue) = 0
      fresh == IF rebuilt THEN RotationState(buildNewQueue(q, js), Len(q)) ELSE user
      nextIndex == IF fresh.queue = <<>> THEN Undefined ELSE Head(fresh.queue)
      shifted == IF fresh.queue = <<>> THEN fresh
                 ELSE RotationState(Tail(fresh.queue), fresh.version)
  IN [state |-> [uid \in DOMAIN state \cup {userId} |-> shifted],
      index |-> nextIndex,
      quote |-> IF nextIndex \in 0..(Len(q) - 1) THEN q[nextIndex + 1] ELSE NoQuote,
      rebuilt |-> rebuilt]
\* The result of one call: the map afterwards, the index shifted out, the quote
\* returned, and whether the queue was rebuilt.
getNextQuoteForUser(state, q, userId, js) ==
  LET user == IF userId \in DOMAIN state THEN state[userId]
              ELSE RotationState(<<>>, Len(q))
      rebuilt == user.version # Len(q) \/ Len(user.queue) = 0
      fresh == IF rebuilt THEN RotationState(buildNewQueue(q, js), Len(q)) ELSE user
      nextIndex == IF fresh.queue = <<>> THEN Undefined ELSE Head(fresh.queue)
      shifted == IF fresh.queue = <<>> THEN fresh
                 ELSE RotationState(Tail(fresh.queue), fresh.version)
  IN [state |-> [uid \in DOMAIN state \cup {userId} |->
                   IF uid = userId THEN shifted ELSE state[uid]],
      index |-> nextIndex,
      quote |-> IF nextIndex \in 0..(Len(q) - 1) THEN q[nextIndex + 1] ELSE NoQuote,
      rebuilt |-> rebuilt]

(* ----------------------- Users & Greeted Users ----------------------- *)
loadUsers(doc) == IF Readable(doc) /\ Parses(doc) THEN NewSet(doc.val) ELSE <<>>
\* JSON.stringify of the Set itself, not of [...set]: "{}", which is no array
saveUsersUnspread(set) == Corrupt
saveUsers(set) == JSONstringify(set)
\* line 94 has no try: reading an absent file throws, an empty one reads as "[]",
\* and JSON.parse throws on text that is no JSON
GreetedLoads(doc) == Readable(doc) /\ (doc.kind = "empty" \/ Parses(doc))
loadGreeted(doc) == IF doc.kind = "empty" THEN <<>> ELSE NewSet(doc.val)

(* ------------------------- Post Quote & Article ---------------------- *)
dummy == <<"article1", "article2", "article3">>
Null == "null"
NonEmpty(l) == l # <<>>
\* readLines: the non-empty lines of the file, none when it cannot be read
readLines(file) == IF file.exists THEN SelectSeq(Split(file.text), NonEmpty) ELSE <<>>
\* an append that leaves out the "\n"
appendLineBare(file, line) == TextFile(file.text \o <<line>>)
\* appendLine: appendFileSync creates the file when it is not there
appendLine(file, line) == TextFile(file.text \o <<line, NL>>)
\* dummy.filter(url => !posted.has(url))
ArticleOptions(file) ==
  LET posted == Range(readLines(file))
      Unposted(url) == <<url>> \notin posted
  IN SelectSeq(dummy, Unposted)
\* the choice is returned for sending and its recording is left for later
getRandomArticleUnrecorded(file, r) ==
  LET options == ArticleOptions(file)
  IN IF Len(options) = 0 THEN [url |-> Null, file |-> file]
     ELSE [url |-> options[r + 1], file |-> file]
\* r is Math.floor(Math.random() * options.length)
getRandomArticle(file, r) ==
  LET options == ArticleOptions(file)
  IN IF Len(options) = 0 THEN [url |-> Null, file |-> file]
     ELSE [url |-> options[r + 1], file |-> appendLine(file, options[r + 1])]

\* Math.ceil in place of Math.floor
postQuoteCeil(q, r) ==
  [index |-> r + 1, quote |-> IF r + 1 \in 0..(Len(q) - 1) THEN q[r + 2] ELSE NoQuote]
\* postQuote: r is Math.floor(Math.random() * quotes.length); what is sent
postQuote(q, r) ==
  [index |-> r, quote |-> IF r \in 0..(Len(q) - 1) THEN q[r + 1] ELSE NoQuote]
\* postArticle: the file afterwards, getRandomArticle's result, the urls sent
postArticle(file, r) ==
  [file |-> getRandomArticle(file, r).file,
   url |-> getRandomArticle(file, r).url,
   messages |-> IF getRandomArticle(file, r).url # Null
                THEN <<getRandomArticle(file, r).url>> ELSE <<>>]

(* -------------------- Daily Quotes to Individuals -------------------- *)
\* users.forEach: each callback runs getNextQuoteForUser and calls bot.sendMessage
\* before it first suspends, so the whole loop is one uninterrupted stretch
RECURSIVE ForEachUser(_, _, _, _, _)
ForEachUser(state, q, us, draws, calls) ==
  IF us = <<>> THEN [state |-> state, calls |-> calls]
  ELSE LET uid == Head(us)
           r == getNextQuoteForUser(state, q, uid, draws[uid])
       IN ForEachUser(r.state, q, Tail(us), draws,
                      Append(calls, [uid |-> uid, index |-> r.index,
                                     quote |-> r.quote, rebuilt |-> r.rebuilt]))
\* a loop that awaits each send before the next callback starts, and so never gets
\* past the first user while that send is pending
sendDailyQuotesInTurn(state, q, us, draws) ==
  ForEachUser(state, q, IF us = <<>> THEN <<>> ELSE <<Head(us)>>, draws, <<>>)
\* a loop that stops one short of the end of users
sendDailyQuotesButLast(state, q, us, draws) ==
  ForEachUser(state, q, IF us = <<>> THEN <<>> ELSE SubSeq(us, 1, Len(us) - 1),
              draws, <<>>)
sendDailyQuotesToUsers(state, q, us, draws) == ForEachUser(state, q, us, draws, <<>>)

(* -------------------------- AI Chat Handler -------------------------- *)
Texts == {"hi", "/start", "none"}      \* msg.text: a text, a command, or no text
HasText(text) == text # "none"
StartsWithSlash(text) == text = "/start"
\* a handler that saves users.json on every message
storeUserAlways(set, doc, userId) ==
  [users |-> SetAdd(set, userId), doc |-> saveUsers(SetAdd(set, userId)), wrote |-> TRUE]
\* lines 116-119: what the handler does to users and users.json
storeUser(set, doc, userId) ==
  IF userId \notin Range(set)
  THEN [users |-> SetAdd(set, userId), doc |-> saveUsers(SetAdd(set, userId)),
        wrote |-> TRUE]
  ELSE [users |-> set, doc |-> doc, wrote |-> FALSE]
\* a check that looks at the greeted set only
shouldGreetAnyMessage(greeted, userId, text) == userId \notin Range(greeted)
\* line 122
shouldGreet(greeted, userId, text) ==
  userId \notin Range(greeted) /\ HasText(text) /\ ~StartsWithSlash(text)

(* ------------------------------- state ------------------------------- *)
VARIABLES
  quotesFile,    \* ./quotes.txt
  usersDoc,      \* ./data/users.json
  greetedDoc,    \* ./data/greeted_users.json
  queuesDoc,     \* ./data/user_queues.json
  postedFile,    \* ./data/posted_articles.txt
  phase,         \* "down", "running", or "crashed" (the module threw while loading)
  quotes,        \* const quotes
  userQueues,    \* const _userQueues
  users,         \* const users, a Set in insertion order
  greetedUsers,  \* let greetedUsers
  tasks,         \* message handlers of this process: id -> [userId, text, pc]
  sends,         \* bot.sendMessage calls of this process's fan-outs, with their outcome
  snap,          \* fan-out id -> users when sendDailyQuotesToUsers was called
  msgs,          \* messages received so far
  fans,          \* fan-outs started so far
  gen,           \* per user: the indices returned since the queue was last rebuilt
  intros,        \* per user: introductions sent by this process
  usersWrites,   \* writes of users.json so far
  artLog,        \* results of the getRandomArticle calls so far
  posts,         \* bot.sendMessage calls to the channel by this process, in order
  artSent        \* article urls handed to bot.sendMessage so far

disk == <<quotesFile, usersDoc, greetedDoc, queuesDoc, postedFile>>
memory == <<quotes, userQueues, users, greetedUsers>>
chat == <<tasks, msgs, intros, usersWrites>>
fanout == <<sends, snap, fans, gen>>
channel == <<posts, artSent>>
vars == <<disk, phase, memory, chat, fanout, artLog, channel>>

\* quotes.txt as found at a start: absent, or one of these texts
CorpusTexts ==
  { <<>>,
    <<"#", "q", NL, SP>>,
    <<BOM, "a", SP, NL>>,
    <<"a", NL, SP, "#", NL, "b">>,
    <<"a", NL, "b", NL, NL, "c", NL>> }
CorpusFiles == {NoFile} \cup {TextFile(t) : t \in CorpusTexts}

NoGen == [u \in Users |-> [n |-> 0, hist |-> <<>>]]
NoIntros == [u \in Users |-> 0]

\* the state before the first start; the documents are those a first run finds
InitWith(corpora, userDocs, greetedDocs, queueDocs, postedFiles) ==
  /\ quotesFile \in corpora
  /\ usersDoc \in userDocs
  /\ greetedDoc \in greetedDocs
  /\ queuesDoc \in queueDocs
  /\ postedFile \in postedFiles
  /\ phase = "down"
  /\ quotes = <<>> /\ userQueues = <<>> /\ users = <<>> /\ greetedUsers = <<>>
  /\ tasks = <<>> /\ sends = {} /\ snap = <<>>
  /\ msgs = 0 /\ fans = 0 /\ gen = NoGen /\ intros = NoIntros
  /\ usersWrites = 0 /\ artLog = <<>>
  /\ posts = <<>> /\ artSent = <<>>

(* ------------------------------ fan-out ------------------------------ *)
CallFor(calls, u) == calls[CHOOSE i \in DOMAIN calls : calls[i].uid = u]
GenAfter(g, q, calls) ==
  [u \in Users |->
     IF \E i \in DOMAIN calls : calls[i].uid = u
     THEN IF CallFor(calls, u).rebuilt
          THEN [n |-> Len(q), hist |-> <<CallFor(calls, u).index>>]
          ELSE [n |-> g[u].n, hist |-> Append(g[u].hist, CallFor(calls, u).index)]
     ELSE g[u]]

\* what one run of the loop leaves behind: r is its result
FanOutEffect(r, q, us) ==
  /\ userQueues' = r.state
  /\ queuesDoc' = IF us = <<>> THEN queuesDoc ELSE saveUserQueues(r.state)
  /\ sends' = sends \cup
       {[fan |-> fans + 1, uid |-> r.calls[i].uid, index |-> r.calls[i].index,
         quote |-> r.calls[i].quote, status |-> "pending"] : i \in DOMAIN r.calls}
  /\ gen' = GenAfter(gen, q, r.calls)
FanOut(state, q, us) ==
  /\ fans < MaxFanOuts
  /\ \E r \in {sendDailyQuotesToUsers(state, q, us, draws) :
                  draws \in [Users -> Draws(Len(q))]} : FanOutEffect(r, q, us)
  /\ fans' = fans + 1
  /\ snap' = [f \in DOMAIN snap \cup {fans + 1} |-> IF f = fans + 1 THEN us ELSE snap[f]]

(* ------------------------------ actions ------------------------------ *)
\* node index.js: the module body, lines 1-222, up to the first return to the event loop
Start ==
  /\ phase = "down"
  /\ LET q == loadQuotes(quotesFile)
         uq == loadUserQueues(queuesDoc, q)
         us == loadUsers(usersDoc)
     IN /\ quotes' = q
        /\ users' = us
        /\ IF GreetedLoads(greetedDoc)
           THEN /\ phase' = "running"
                /\ greetedUsers' = loadGreeted(greetedDoc)
                /\ FanOut(uq, q, us)
           ELSE /\ phase' = "crashed"
                /\ userQueues' = uq
                /\ UNCHANGED <<greetedUsers, queuesDoc, fanout>>
  /\ UNCHANGED <<quotesFile, usersDoc, greetedDoc, postedFile, chat, artLog, channel>>

\* the process ends (killed, redeployed): its memory and pending work are gone
Stop ==
  /\ phase = "running"
  /\ fans < MaxFanOuts
  /\ phase' = "down"
  /\ quotes' = <<>> /\ userQueues' = <<>> /\ users' = <<>> /\ greetedUsers' = <<>>
  /\ tasks' = <<>> /\ sends' = {} /\ snap' = <<>> /\ intros' = NoIntros
  /\ posts' = <<>>
  /\ UNCHANGED <<disk, msgs, usersWrites, fans, gen, artLog, artSent>>

\* quotes.txt is replaced while the bot is down
EditCorpus ==
  /\ phase = "down"
  /\ fans > 0
  /\ quotesFile' \in CorpusFiles \ {quotesFile}
  /\ UNCHANGED <<usersDoc, greetedDoc, queuesDoc, postedFile, phase, memory, chat,
                 fanout, artLog, channel>>

\* a fan-out entry that skips its tick while an earlier send is unsettled
CronFanOutWhenSettled ==
  /\ phase = "running"
  /\ \A s \in sends : s.status # "pending"
  /\ FanOut(userQueues, quotes, users)
  /\ UNCHANGED <<quotesFile, usersDoc, greetedDoc, postedFile, phase, quotes, users,
                 greetedUsers, chat, artLog, channel>>

\* cron.schedule("0 10 * * *", () => sendDailyQuotesToUsers())
CronFanOut ==
  /\ phase = "running"
  /\ FanOut(userQueues, quotes, users)
  /\ UNCHANGED <<quotesFile, usersDoc, greetedDoc, postedFile, phase, quotes, users,
                 greetedUsers, chat, artLog, channel>>

\* a fan-out's bot.sendMessage settles: resolved, or rejected and logged (lines 202-206)
SendSettled(s, ok) ==
  /\ phase = "running"
  /\ s \in sends /\ s.status = "pending"
  /\ sends' = (sends \ {s}) \cup {[s EXCEPT !.status = IF ok THEN "sent" ELSE "failed"]}
  /\ UNCHANGED <<disk, phase, memory, chat, snap, fans, gen, artLog, channel>>

\* where the handler first suspends, or that it returned at line 129
FirstAwait(greeted, userId, text) ==
  IF shouldGreet(greeted, userId, text) THEN "awaitIntro"
  ELSE IF HasText(text) /\ StartsWithSlash(text) THEN "returned"
  ELSE "awaitAI"
\* bot.on("message"), lines 111-124 or 111-132: up to the handler's first await
OnMessage(userId, text) ==
  /\ phase = "running"
  /\ msgs < MaxMsgs
  /\ users' = storeUser(users, usersDoc, userId).users
  /\ usersDoc' = storeUser(users, usersDoc, userId).doc
  /\ usersWrites' = IF storeUser(users, usersDoc, userId).wrote
                    THEN usersWrites + 1 ELSE usersWrites
  /\ msgs' = msgs + 1
  /\ tasks' = [id \in DOMAIN tasks \cup {msgs + 1} |->
                 IF id = msgs + 1
                 THEN [userId |-> userId, text |-> text,
                       pc |-> FirstAwait(greetedUsers, userId, text)]
                 ELSE tasks[id]]
  /\ intros' = IF FirstAwait(greetedUsers, userId, text) = "awaitIntro"
               THEN [intros EXCEPT ![userId] = @ + 1] ELSE intros
  /\ UNCHANGED <<quotesFile, greetedDoc, queuesDoc, postedFile, phase, quotes,
                 userQueues, greetedUsers, fanout, artLog, channel>>

\* lines 124-132: the introduction's send settles; a rejection ends the handler
IntroSettled(id, ok) ==
  /\ phase = "running"
  /\ id \in DOMAIN tasks /\ tasks[id].pc = "awaitIntro"
  /\ IF ok
     THEN /\ greetedUsers' = SetAdd(greetedUsers, tasks[id].userId)
          /\ greetedDoc' = JSONstringify(SetAdd(greetedUsers, tasks[id].userId))
          /\ tasks' = [tasks EXCEPT ![id].pc = "awaitAI"]
     ELSE /\ tasks' = [tasks EXCEPT ![id].pc = "threw"]
          /\ UNCHANGED <<greetedUsers, greetedDoc>>
  /\ UNCHANGED <<quotesFile, usersDoc, queuesDoc, postedFile, phase, quotes, userQueues,
                 users, msgs, intros, usersWrites, fanout, artLog, channel>>

\* lines 132-133: getAIReply returns (it never throws) and the reply is sent
AIReplied(id) ==
  /\ phase = "running"
  /\ id \in DOMAIN tasks /\ tasks[id].pc = "awaitAI"
  /\ tasks' = [tasks EXCEPT ![id].pc = "awaitReply"]
  /\ UNCHANGED <<disk, phase, memory, msgs, intros, usersWrites, fanout, artLog, channel>>

\* line 133: the reply's send settles and the handler ends
ReplySettled(id, ok) ==
  /\ phase = "running"
  /\ id \in DOMAIN tasks /\ tasks[id].pc = "awaitReply"
  /\ tasks' = [tasks EXCEPT ![id].pc = IF ok THEN "done" ELSE "threw"]
  /\ UNCHANGED <<disk, phase, memory, msgs, intros, usersWrites, fanout, artLog, channel>>

\* cron.schedule("0 12,21 * * *", () => postArticle(TARGET_CHAT_ID))
\* the values Math.floor(Math.random() * n) can take; 0 when n is 0
RandomBelow(n) == IF n = 0 THEN {0} ELSE 0..(n - 1)
Post(entry, index, body) ==
  [entry |-> entry, index |-> index, body |-> body, status |-> "pending"]
CronArticle ==
  /\ phase = "running"
  /\ Len(artLog) < MaxArticleTicks
  /\ \E a \in {postArticle(postedFile, r) :
                  r \in RandomBelow(Len(ArticleOptions(postedFile)))} :
       /\ postedFile' = a.file
       /\ artLog' = Append(artLog, a.url)
       /\ artSent' = artSent \o a.messages
       /\ posts' = posts \o [i \in DOMAIN a.messages |->
                                Post("article", Undefined, <<a.messages[i]>>)]
  /\ UNCHANGED <<quotesFile, usersDoc, greetedDoc, queuesDoc, phase, memory, chat, fanout>>

\* cron.schedule("0 9,18 * * *", () => postQuote(TARGET_CHAT_ID))
QuotePosts == SelectSeq(posts, LAMBDA p : p.entry = "quote")
CronQuote ==
  /\ phase = "running"
  /\ Len(QuotePosts) < MaxQuoteTicks
  /\ \E p \in {postQuote(quotes, r) : r \in RandomBelow(Len(quotes))} :
       posts' = Append(posts, Post("quote", p.index, p.quote))
  /\ UNCHANGED <<disk, phase, memory, chat, fanout, artLog, artSent>>

\* a channel send settles; nothing awaits it and nothing catches its rejection
ChannelSettled(i, ok) ==
  /\ phase = "running"
  /\ i \in DOMAIN posts /\ posts[i].status = "pending"
  /\ posts' = [posts EXCEPT ![i].status = IF ok THEN "sent" ELSE "failed"]
  /\ UNCHANGED <<disk, phase, memory, chat, fanout, artLog, artSent>>

(* --------------------------- specifications -------------------------- *)
GoodGreeted == {Empty, JSONstringify(<<>>)}
LegacyQueues == JSONstringify([u \in {1} |-> NumberEntry(1)])

Init ==
  InitWith(CorpusFiles, {Absent, Corrupt, Empty, JSONstringify(<<1>>)},
           {Absent, Corrupt, Empty, JSONstringify(<<>>)},
           {Absent, Corrupt, Empty, LegacyQueues}, {NoFile, TextFile(<<>>)})
Next ==
  \/ Start
  \/ Stop
  \/ EditCorpus
  \/ CronFanOut
  \/ \E s \in sends, ok \in BOOLEAN : SendSettled(s, ok)
  \/ \E u \in Users, text \in Texts : OnMessage(u, text)
  \/ \E id \in DOMAIN tasks, ok \in BOOLEAN : IntroSettled(id, ok)
  \/ \E id \in DOMAIN tasks : AIReplied(id)
  \/ \E id \in DOMAIN tasks, ok \in BOOLEAN : ReplySettled(id, ok)
  \/ CronArticle
  \/ CronQuote
  \/ \E i \in DOMAIN posts, ok \in BOOLEAN : ChannelSettled(i, ok)
Spec == Init /\ [][Next]_vars

\* The rotation across restarts and corpus changes. Users become known through
\* commands; the fan-outs' sends stay pending, as nothing reads their outcome.
InitRotation ==
  InitWith(CorpusFiles, {Absent, JSONstringify(<<1>>)}, {JSONstringify(<<>>)},
           {Absent, LegacyQueues}, {NoFile})
NextRotation ==
  \/ Start
  \/ Stop
  \/ EditCorpus
  \/ CronFanOut
  \/ \E u \in Users : OnMessage(u, "/start")
SpecRotation == InitRotation /\ [][NextRotation]_vars

\* The fan-out and the outcomes of its sends, over one corpus of two quotes.
InitFanOut ==
  InitWith({TextFile(<<"a", NL, SP, "#", NL, "b">>)}, {Absent, JSONstringify(<<1>>)},
           {JSONstringify(<<>>)}, {Absent}, {NoFile})
NextFanOut ==
  \/ Start
  \/ Stop
  \/ CronFanOut
  \/ \E s \in sends, ok \in BOOLEAN : SendSettled(s, ok)
  \/ \E u \in Users : OnMessage(u, "/start")
SpecFanOut == InitFanOut /\ [][NextFanOut]_vars

\* The message handler and its suspended tasks; no quotes.txt.
InitChat ==
  InitWith({NoFile}, {Absent, Corrupt}, GoodGreeted, {Absent}, {NoFile})
NextChat ==
  \/ Start
  \/ Stop
  \/ \E u \in Users, text \in Texts : OnMessage(u, text)
  \/ \E id \in DOMAIN tasks, ok \in BOOLEAN : IntroSettled(id, ok)
  \/ \E id \in DOMAIN tasks : AIReplied(id)
  \/ \E id \in DOMAIN tasks, ok \in BOOLEAN : ReplySettled(id, ok)
SpecChat == InitChat /\ [][NextChat]_vars

\* The article feed across restarts.
InitArticle ==
  InitWith({NoFile}, {Absent}, GoodGreeted, {Absent},
           {NoFile, TextFile(<<>>), TextFile(<<"article2", NL>>)})
NextArticle ==
  \/ Start
  \/ Stop
  \/ CronArticle
SpecArticle == InitArticle /\ [][NextArticle]_vars

\* Starting, and starting again, from every combination of documents.
NextStartup ==
  \/ Start
  \/ Stop
SpecStartup == Init /\ [][NextStartup]_vars

\* Every writer of the four documents within one process: messages, greetings,
\* fan-outs and article ticks, over one corpus of two quotes, starting from a
\* damaged users.json, an empty greeted_users.json and an old user_queues.json.
InitPersist ==
  InitWith({TextFile(<<"a", NL, "b">>)}, {Corrupt}, {Empty},
           {LegacyQueues}, {TextFile(<<"article2", NL>>)})
NextPersist ==
  \/ Start
  \/ CronFanOut
  \/ \E u \in Users, text \in {"hi", "/start"} : OnMessage(u, text)
  \/ \E id \in DOMAIN tasks, ok \in BOOLEAN : IntroSettled(id, ok)
  \/ CronArticle
SpecPersist == InitPersist /\ [][NextPersist]_vars

\* The three schedule entries of one process and the outcomes of their sends,
\* with one known user, one quote and one article left to post.
InitSchedule ==
  InitWith({TextFile(<<"a">>)}, {JSONstringify(<<1>>)}, {Empty}, {Absent},
           {TextFile(<<"article2", NL, "article3", NL>>)})
NextSchedule ==
  \/ Start
  \/ CronQuote
  \/ CronArticle
  \/ CronFanOut
  \/ \E s \in sends, ok \in BOOLEAN : SendSettled(s, ok)
  \/ \E i \in DOMAIN posts, ok \in BOOLEAN : ChannelSettled(i, ok)
SpecSchedule == InitSchedule /\ [][NextSchedule]_vars

\* The channel quote next to the per-user rotation, over every sample corpus.
InitChannel ==
  InitWith(CorpusFiles, {JSONstringify(<<1>>)}, {Empty}, {Absent}, {NoFile})
NextChannel ==
  \/ Start
  \/ Stop
  \/ CronQuote
  \/ CronFanOut
  \/ \E i \in DOMAIN posts, ok \in BOOLEAN : ChannelSettled(i, ok)
SpecChannel == InitChannel /\ [][NextChannel]_vars

\* The article feed with the outcomes of its channel sends, across restarts.
NextArticleSends ==
  \/ Start
  \/ Stop
  \/ CronArticle
  \/ \E i \in DOMAIN posts, ok \in BOOLEAN : ChannelSettled(i, ok)
SpecArticleSends == InitArticle /\ [][NextArticleSends]_vars

(* ------------------------------ claims ------------------------------- *)
\* the rotation states the process holds, or would load if it started now
Stored ==
  IF phase = "running" THEN userQueues
  ELSE loadUserQueues(queuesDoc, loadQuotes(quotesFile))
\* this step ran getNextQuoteForUser(u): a fan-out started with u among users
CalledFor(u) == fans' = fans + 1 /\ u \in Range(snap'[fans'])

\* C1: over a non-empty corpus of n quotes, the indices getNextQuoteForUser has
\* returned to a user since that user's queue was last rebuilt are pairwise
\* distinct and lie in [0, n); there are at most n of them, and n of them are
\* exactly [0, n), so the call after them rebuilds the queue.
C1_Permutation ==
  \A u \in Users :
    gen[u].n > 0 =>
      /\ Len(gen[u].hist) <= gen[u].n
      /\ NoDup(gen[u].hist)
      /\ Range(gen[u].hist) \subseteq 0..(gen[u].n - 1)
      /\ (Len(gen[u].hist) = gen[u].n => Range(gen[u].hist) = 0..(gen[u].n - 1))
\* a user has been given a whole generation of three quotes
C1_Witness == \E u \in Users : gen[u].n = 3 /\ Len(gen[u].hist) = 3

\* C2: when getNextQuoteForUser runs for a user whose stored state has a version
\* other than the number of quotes, the call leaves version equal to that number,
\* returns an index of the new range, and leaves in the queue the rest of one
\* full permutation of the new range: nothing of the old queue survives.
C2_Returned(u) == (CHOOSE s \in sends' : s.fan = fans' /\ s.uid = u).index
C2_Regenerated(u) ==
  /\ userQueues'[u].version = Len(quotes')
  /\ C2_Returned(u) \in 0..(Len(quotes') - 1)
  /\ NoDup(<<C2_Returned(u)>> \o userQueues'[u].queue)
  /\ Range(<<C2_Returned(u)>> \o userQueues'[u].queue) = 0..(Len(quotes') - 1)
C2_Stale(u) == u \in DOMAIN Stored /\ Stored[u].version # Len(quotes')
C2_VersionInvalidation ==
  [][\A u \in Users : CalledFor(u) /\ C2_Stale(u) => C2_Regenerated(u)]_vars

\* C7: no fan-out sends a user a quote that is `undefined`, and no call shifts
\* `undefined` out of an empty queue.
C7_NoUndefinedQuote ==
  \A s \in sends : s.index # Undefined /\ s.quote # NoQuote

\* C9: every stored rotation state, in memory and in user_queues.json, has a queue
\* without repeats whose indices lie in [0, version): the rest of a permutation
\* of [0, version).
C9_WellFormed(st) ==
  /\ NoDup(st.queue)
  /\ Range(st.queue) \subseteq 0..(st.version - 1)
C9_RotationInvariant ==
  /\ \A u \in DOMAIN userQueues : C9_WellFormed(userQueues[u])
  /\ \A u \in DOMAIN Stored : C9_WellFormed(Stored[u])
\* a state written for three quotes and partly consumed waits on disk for a
\* process whose corpus has another size
C9_Witness ==
  /\ phase = "down"
  /\ Len(loadQuotes(quotesFile)) # 3
  /\ \E u \in DOMAIN Stored : Stored[u].version = 3 /\ Len(Stored[u].queue) = 2

\* C6: every fan-out of this process has called bot.sendMessage exactly once for
\* each user known when it started and for nobody else, whatever became of the
\* other sends.
C6_Attempts(f, u) == Cardinality({s \in sends : s.fan = f /\ s.uid = u})
C6_FailureIsolation ==
  \A f \in DOMAIN snap : \A u \in Users :
    C6_Attempts(f, u) = IF u \in Range(snap[f]) THEN 1 ELSE 0
\* one send of a fan-out failed and another send of it went through
C6_Witness ==
  \E a \in sends, b \in sends :
    a.fan = b.fan /\ a.uid # b.uid /\ a.status = "failed" /\ b.status = "sent"

\* C3: no two handler tasks of one user are both suspended at the introduction's
\* send, that is, no two of them have both passed the test of line 122.
C3_Greeters(u) ==
  {id \in DOMAIN tasks : tasks[id].userId = u /\ tasks[id].pc = "awaitIntro"}
C3_AtomicGreeting == \A u \in Users : Cardinality(C3_Greeters(u)) <= 1

\* C4: within one process no user is sent the introduction more than once.
C4_GreetedOnce == \A u \in Users : intros[u] <= 1

\* C10: a message from a user already in users changes neither users nor
\* users.json; one from a new user appends the id and writes users.json once;
\* users.json is written by nothing else; and no step removes an id from the
\* known set, in memory or as a start would load it.
Known == IF phase = "running" THEN Range(users) ELSE Range(loadUsers(usersDoc))
C10_MessageFrom(u) == msgs' = msgs + 1 /\ tasks'[msgs'].userId = u
C10_RecordSeen ==
  [][/\ \A u \in Users : C10_MessageFrom(u) =>
          IF u \in Range(users)
          THEN users' = users /\ usersDoc' = usersDoc /\ usersWrites' = usersWrites
          ELSE /\ users' = Append(users, u)
               /\ usersWrites' = usersWrites + 1
               /\ loadUsers(usersDoc') = users'
     /\ (usersDoc' # usersDoc \/ usersWrites' # usersWrites) => msgs' = msgs + 1
     /\ Known \subseteq Known']_vars
\* a known user has written again: two messages of one user, one write
C10_Witness ==
  /\ usersWrites = 1
  /\ \E i, j \in DOMAIN tasks : i # j /\ tasks[i].userId = tasks[j].userId


\* C5: a getRandomArticle call returns null exactly when every article of the
\* pool is in posted_articles.txt; otherwise it returns an article that was not
\* in the file and is in it afterwards; and no step takes an article out of the
\* file, so once null is returned it is returned ever after.
Served(file) == {url \in Range(dummy) : <<url>> \in Range(readLines(file))}
C5_Call == Len(artLog') = Len(artLog) + 1
C8_StartupNeverCrashes == phase # "crashed"
\* C11: whenever the process is between two tasks, each document loads to what
\* the process holds: users.json to the known users, greeted_users.json to the
\* greeted set, user_queues.json to the rotation map, and posted_articles.txt
\* holds every url the feed has handed out; a restart reloads the same state.
C11_WriteThrough ==
  phase = "running" =>
    /\ loadUsers(usersDoc) = users
    /\ GreetedLoads(greetedDoc) /\ loadGreeted(greetedDoc) = greetedUsers
    /\ loadUserQueues(queuesDoc, loadQuotes(quotesFile)) = userQueues
    /\ Range(artSent) \subseteq Served(postedFile)
C11_Witness ==
  /\ phase = "running"
  /\ Len(users) = 2 /\ greetedUsers # <<>> /\ artSent # <<>>
  /\ \E id \in DOMAIN tasks : tasks[id].pc = "awaitIntro"
  /\ \E u \in DOMAIN userQueues : userQueues[u].queue # <<>>

\* C12: every start of the process runs the fan-out once, at once, over the
\* users loaded from users.json, and takes exactly one index out of the rotation
\* of each of them.
C12_Popped(u) ==
  /\ Cardinality({s \in sends' : s.fan = fans' /\ s.uid = u}) = 1
  /\ \A s \in sends' : s.fan = fans' /\ s.uid = u =>
        /\ s.index \in 0..(Len(quotes') - 1)
        /\ s.index \notin Range(userQueues'[u].queue)
        /\ Len(userQueues'[u].queue) =
             (IF u \in DOMAIN Stored /\ Stored[u].version = Len(quotes')
                   /\ Stored[u].queue # <<>>
              THEN Len(Stored[u].queue) ELSE Len(quotes')) - 1
C12_StartupFanOut ==
  [][phase = "down" /\ phase' # "down" =>
       /\ phase' = "running"
       /\ fans' = fans + 1
       /\ snap'[fans'] = loadUsers(usersDoc)
       /\ \A u \in Range(loadUsers(usersDoc)) : C12_Popped(u)]_vars

\* C13: a fan-out sends to exactly the users known when it was invoked; nothing
\* that happens while its sends are pending adds or removes a recipient, so a
\* user recorded meanwhile gets nothing from it and no recipient is dropped.
C13_Recipients(f) == {s.uid : s \in {t \in sends : t.fan = f}}
C13_RecipientsAfter(f) == {s.uid : s \in {t \in sends' : t.fan = f}}
C13_Snapshot ==
  [][/\ fans' = fans + 1 => C13_RecipientsAfter(fans') = Known
     /\ \A f \in 1..fans :
          phase = "running" /\ phase' = "running" =>
            C13_RecipientsAfter(f) = C13_Recipients(f)]_vars
C13_Witness ==
  \E f \in DOMAIN snap, u \in Range(users) :
    /\ u \notin Range(snap[f]) /\ u \notin C13_Recipients(f)
    /\ \E s \in sends : s.fan = f /\ s.status = "pending"

\* C14: in a running process each of the three schedule entries can fire at
\* every moment, whatever the sends of earlier firings are doing (pending,
\* failed or sent): a firing is one synchronous call that awaits nothing, so
\* an entry is idle again as soon as it has fired and never holds up another.
C14_IndependentEntries ==
  phase = "running" =>
    /\ Len(QuotePosts) < MaxQuoteTicks => ENABLED CronQuote
    /\ Len(artLog) < MaxArticleTicks => ENABLED CronArticle
    /\ fans < MaxFanOuts => ENABLED CronFanOut
C14_Witness ==
  /\ \E i, j \in DOMAIN posts :
       /\ i < j /\ posts[i].entry = "quote" /\ posts[i].status = "failed"
       /\ posts[j].entry = "article" /\ posts[j].status = "pending"
  /\ \E s, t \in sends : s.fan < t.fan /\ s.status = "pending"
  /\ fans < MaxFanOuts /\ Len(artLog) < MaxArticleTicks

\* C15: a call of getNextQuoteForUser for one user leaves the stored queue and
\* version of every other user as they were; a user whose own queue is current
\* and non-empty loses exactly its head in a fan-out, however many other users
\* rebuild their queues in the same fan-out.
C15_Current(v) == Stored[v].version = Len(quotes') /\ Stored[v].queue # <<>>
C15_NoSharing ==
  [][fans' = fans + 1 =>
       /\ DOMAIN userQueues' = DOMAIN Stored \cup Range(snap'[fans'])
       /\ \A v \in DOMAIN Stored :
            /\ ~CalledFor(v) => userQueues'[v] = Stored[v]
            /\ CalledFor(v) /\ C15_Current(v) =>
                 userQueues'[v] = RotationState(Tail(Stored[v].queue), Stored[v].version)]_vars
C15_Witness ==
  \E u, v \in Range(users) :
    /\ \E s, t \in sends : s.fan = fans /\ t.fan = fans /\ s.uid = u /\ t.uid = v
    /\ gen[u].n = gen[v].n
    /\ Len(gen[u].hist) = 1 /\ Len(gen[v].hist) > 1

\* C16 as stated: a channel quote is pulled from the stored rotation, so the
\* tick changes the store, and among any n consecutive channel quotes over a
\* corpus of n quotes no index occurs twice.
C16_Tick == Len(QuotePosts') = Len(QuotePosts) + 1
C17_SentAtMostOnce ==
  /\ NoDup(artSent)
  /\ \A i \in DOMAIN artSent : artSent[i] \in Served(postedFile)
  /\ Len(posts) <= Len(artSent)
C17_Witness ==
  /\ \E i \in DOMAIN posts : posts[i].status = "failed" /\ i < Len(posts)
  /\ Len(posts) < Len(artSent)
  /\ artLog # <<>> /\ Last(artLog) = Null

\* C18: no update of a rotation is lost when fan-outs overlap. The k indices a
\* user has been given since the last rebuild are k positions gone from the
\* stored queue, and the sends of one generation to one user, pending ones of
\* an earlier fan-out included, carry pairwise different indices.
C18_InGeneration(s) ==
  Cardinality({t \in sends : t.uid = s.uid /\ t.fan >= s.fan}) <= Len(gen[s.uid].hist)
C18_NoLostUpdate ==
  /\ \A u \in DOMAIN Stored :
       gen[u].hist # <<>> /\ gen[u].n = Stored[u].version =>
         /\ Len(gen[u].hist) + Len(Stored[u].queue) = gen[u].n
         /\ Range(gen[u].hist) \cap Range(Stored[u].queue) = {}
  /\ \A s, t \in sends :
       s.uid = t.uid /\ s.fan < t.fan /\ C18_InGeneration(s) => s.index # t.index
C18_Witness ==
  \E s, t \in sends :
    /\ s.uid = t.uid /\ s.fan < t.fan /\ C18_InGeneration(s)
    /\ s.status = "pending" /\ t.status = "pending"
    /\ Stored[s.uid].queue = <<>>

\* C19: a user enters the greeted set, in memory and in greeted_users.json,
\* only in the step in which the introduction's send to that user resolves. A
\* rejected send leaves both as they were and ends the handler, which sends no
\* reply. A new message starts an introduction exactly when it is a text that
\* is no command from a user not in the greeted set, so a user whose
\* introduction failed is tried again, and commands and messages without text
\* never lead to a change of the greeted set.
C19_Resolved(id) ==
  /\ tasks[id].pc = "awaitIntro" /\ tasks'[id].pc = "awaitAI"
  /\ greetedUsers' = SetAdd(greetedUsers, tasks[id].userId)
  /\ greetedDoc' = JSONstringify(greetedUsers')
C19_Plain(text) == HasText(text) /\ ~StartsWithSlash(text)
C19_GreetAfterSend ==
  [][/\ greetedDoc' # greetedDoc => \E id \in DOMAIN tasks : C19_Resolved(id)
     /\ phase = "running" /\ phase' = "running" =>
          /\ greetedUsers' # greetedUsers => \E id \in DOMAIN tasks : C19_Resolved(id)
          /\ \A id \in DOMAIN tasks :
               /\ tasks[id].pc = "awaitIntro" => C19_Plain(tasks[id].text)
               /\ tasks[id].pc = "awaitIntro" /\ tasks'[id].pc = "threw" =>
                    greetedUsers' = greetedUsers /\ greetedDoc' = greetedDoc
               /\ tasks[id].pc = "threw" => tasks'[id].pc = "threw"
          /\ \A id \in DOMAIN tasks' \ DOMAIN tasks :
               tasks'[id].pc = "awaitIntro" <=>
                 /\ tasks'[id].userId \notin Range(greetedUsers)
                 /\ C19_Plain(tasks'[id].text)]_vars
C19_Witness ==
  \E i, j \in DOMAIN tasks :
    /\ i < j /\ tasks[i].userId = tasks[j].userId
    /\ tasks[i].text = "hi" /\ tasks[i].pc = "threw"
    /\ tasks[j].pc = "awaitIntro"
    /\ tasks[i].userId \notin Range(greetedUsers)
    /\ greetedDoc = Empty

====
